---- MODULE Spec2Model ----
(***************************************************************************)
(* Model of tilesegy's indexing layer: FilteredRange (indexables.py), the  *)
(* Header / Headers / Traces / Lines views over the two tiledb arrays and  *)
(* the TileSegy facade's open/close lifecycle (api.py).                    *)
(***************************************************************************)
EXTENDS Integers, Sequences, FiniteSets, TLC

VARIABLES
    \* a FilteredRange object, the last index looked up on it, what the lookup
    \* yielded and what a repeat of the same lookup yielded
    fr, index, result, again,
    \* the dataset on disk (immutable), whether the facade's two array handles
    \* are open, the Header views made by Traces.header (each owns a handle),
    \* the read in progress and its outcome
    store, h_open, d_open, views, op, out

frVars == <<fr, index, result, again>>
dsVars == <<store, h_open, d_open, views, op, out>>
vars == <<fr, index, result, again, store, h_open, d_open, views, op, out>>

(***************************************************************************)
(* Bounds of the model.                                                    *)
(***************************************************************************)
\* labels are drawn from -NegSpan .. MaxLabel
NegSpan == 2
MaxLabel == 3
\* slice steps are drawn from -MaxStep .. MaxStep (and None)
MaxStep == 2
\* start / stop / scalar indices are drawn from -IdxSpan .. IdxSpan (and None)
IdxSpan == 5
\* an unstructured dataset has 1 .. MaxTraces traces of 1 .. MaxSamples samples
MaxTraces == 5
MaxSamples == 3
\* a structured dataset has inline labels LabelBase + stride * k, k in a
\* non-empty subset of 0 .. MaxLine, crossline labels 1 .. n for n in
\* 1 .. MaxXlines, and NDepths samples
MaxLine == 3
MaxXlines == 2
NDepths == 2
\* Lines indices reach LineNeg below zero
LineNeg == 2
\* Header views alive at once
MaxViews == 2

(***************************************************************************)
(* Python values.                                                          *)
(***************************************************************************)
\* Python's None, and an int v, as an optional value
None == <<>>
Some(v) == <<v>>
IsNone(o) == o = <<>>
Val(o) == o[1]

Labels == (0 - NegSpan) .. MaxLabel
LabelSets == (SUBSET Labels) \ {{}}
IdxInts == (0 - IdxSpan) .. IdxSpan
OptIdx == {None} \cup {Some(v) : v \in IdxInts}
OptStep == {None} \cup {Some(v) : v \in (0 - MaxStep) .. MaxStep}

\* an index is an int or a slice(start, stop, step)
IntIndex(i) == [kind |-> "int", i |-> i]
SliceIndex(start, stop, step) ==
    [kind |-> "slice", start |-> start, stop |-> stop, step |-> step]
NoIndex == [kind |-> "none"]
Indices ==
    {IntIndex(i) : i \in IdxInts}
        \cup {SliceIndex(a, b, s) : a \in OptIdx, b \in OptIdx, s \in OptStep}

SetMin(S) == CHOOSE x \in S : \A y \in S : x <= y
SetMax(S) == CHOOSE x \in S : \A y \in S : x >= y

\* outcome of a call: the values it yields, or the exception it raises
Ok(vals) == [err |-> "none", vals |-> vals]
Raise(e) == [err |-> e, vals |-> <<>>]
NoResult == [err |-> "nocall", vals |-> <<>>]

\* list(range(start, stop, step)) for step # 0
PyRange(start, stop, step) ==
    LET n == IF step > 0
               THEN IF stop > start THEN (stop - start + step - 1) \div step ELSE 0
               ELSE IF start > stop
                      THEN (start - stop - step - 1) \div (0 - step)
                      ELSE 0
    IN [k \in 1 .. n |-> start + (k - 1) * step]

\* one bound of slice.indices: None takes the default, a negative value has
\* length added and is clamped at lower, any other value is clamped at upper
SliceBound(o, dflt, lower, upper, length) ==
    IF IsNone(o) THEN dflt
    ELSE IF Val(o) < 0
           THEN IF Val(o) + length < lower THEN lower ELSE Val(o) + length
           ELSE IF Val(o) > upper THEN upper ELSE Val(o)

\* slice(start, stop, step).indices(length)
SliceIndices(start, stop, step, length) ==
    LET st == IF IsNone(step) THEN 1 ELSE Val(step)
        lower == IF st < 0 THEN 0 - 1 ELSE 0
        upper == IF st < 0 THEN length - 1 ELSE length
    IN IF st = 0 \/ length < 0
         THEN Raise("ValueError")
         ELSE Ok(<<SliceBound(start, IF st < 0 THEN upper ELSE lower,
                              lower, upper, length),
                   SliceBound(stop, IF st < 0 THEN lower ELSE upper,
                              lower, upper, length),
                   st>>)

(***************************************************************************)
(* FilteredRange                                                           *)
(***************************************************************************)
FilteredRange__init__(members) ==
    [members |-> members,
     min_val |-> SetMin(members),
     max_val |-> SetMax(members) + 1]

\* filter(self._is_member, range(...))
FilterMembers(self, r) == SelectSeq(r, LAMBDA x : x \in self.members)

\* mutant: the range is returned without the membership filter
FilteredRange__getitem__Unfiltered(self, i) ==
    LET s == IF i.kind = "int" THEN SliceIndex(Some(i.i), Some(i.i + 1), None) ELSE i
        increasing == IsNone(s.step) \/ (~IsNone(s.step) /\ Val(s.step) > 0)
        start == IF increasing /\ (IsNone(s.start) \/ Val(s.start) < self.min_val)
                   THEN Some(self.min_val) ELSE s.start
        stop == IF ~increasing /\ (IsNone(s.stop) \/ Val(s.stop) < self.min_val - 1)
                  THEN Some(self.min_val - 1) ELSE s.stop
        ind == SliceIndices(start, stop, s.step, self.max_val)
    IN IF ind.err # "none" THEN ind
       ELSE Ok(PyRange(ind.vals[1], ind.vals[2], ind.vals[3]))

\* mutant: an int i is read as the empty slice(i, i)
FilteredRange__getitem__EmptyScalar(self, i) ==
    LET s == IF i.kind = "int" THEN SliceIndex(Some(i.i), Some(i.i), None) ELSE i
        increasing == IsNone(s.step) \/ (~IsNone(s.step) /\ Val(s.step) > 0)
        start == IF increasing /\ (IsNone(s.start) \/ Val(s.start) < self.min_val)
                   THEN Some(self.min_val) ELSE s.start
        stop == IF ~increasing /\ (IsNone(s.stop) \/ Val(s.stop) < self.min_val - 1)
                  THEN Some(self.min_val - 1) ELSE s.stop
        ind == SliceIndices(start, stop, s.step, self.max_val)
    IN IF ind.err # "none" THEN ind
       ELSE Ok(FilterMembers(self, PyRange(ind.vals[1], ind.vals[2], ind.vals[3])))

FilteredRange__getitem__(self, i) ==
    LET s == IF i.kind = "int" THEN SliceIndex(Some(i.i), Some(i.i + 1), None) ELSE i
        increasing == IsNone(s.step) \/ (~IsNone(s.step) /\ Val(s.step) > 0)
        start == IF increasing /\ (IsNone(s.start) \/ Val(s.start) < self.min_val)
                   THEN Some(self.min_val) ELSE s.start
        stop == IF ~increasing /\ (IsNone(s.stop) \/ Val(s.stop) < self.min_val - 1)
                  THEN Some(self.min_val - 1) ELSE s.stop
        ind == SliceIndices(start, stop, s.step, self.max_val)
    IN IF ind.err # "none" THEN ind
       ELSE Ok(FilterMembers(self, PyRange(ind.vals[1], ind.vals[2], ind.vals[3])))

(***************************************************************************)
(* The dataset on disk: a headers array and a data array.                  *)
(***************************************************************************)
\* the header array's attributes, in schema order
FieldNames == <<"tracl", "fldr", "offset">>

\* the sorted sequence of the members of a set of integers
SortedSeq(S) ==
    IF S = {} THEN <<>>
    ELSE SelectSeq(PyRange(SetMin(S), SetMax(S) + 1, 1), LAMBDA x : x \in S)

UnstructuredStores ==
    {[kind |-> "unstructured", ntraces |-> n, nsamples |-> m,
      ilines |-> <<>>, xlines |-> <<>>] :
        n \in 1 .. MaxTraces, m \in 1 .. MaxSamples}

LineSets ==
    {{base + stride * k : k \in S} :
        base \in {0, 100}, stride \in {1, 2}, S \in (SUBSET (0 .. MaxLine)) \ {{}}}

StructuredStores ==
    {[kind |-> "structured", ntraces |-> Cardinality(L) * n, nsamples |-> NDepths,
      ilines |-> SortedSeq(L), xlines |-> [k \in 1 .. n |-> k]] :
        L \in LineSets, n \in 1 .. MaxXlines}

\* the sample stored at trace t, sample x of an unstructured data array and at
\* (inline position, crossline position, sample) of a structured one
DataCell(t, x) == 10 * t + x
CubeCell(i, x, z) == 100 * i + 10 * x + z
\* the value of the k-th header field of trace t
HeaderValue(t, k) == 100 * k + t

\* metadata of the headers array: binary header entries and the text header
TextBlockLen == 3200
HeadersMeta ==
    <<<<"JobID", 7>>, <<"__text__", 2 * TextBlockLen>>, <<"Interval", 4000>>>>
MetaGet(meta, key) == (CHOOSE k \in 1 .. Len(meta) : meta[k][1] = key)

\* the facade's two handles and the handle a Header view owns
HeadersHandle == [array |-> "headers", open |-> h_open, attr |-> None]
DataHandle == [array |-> "data", open |-> d_open, attr |-> None]
ViewHandle(v) == [array |-> "headers", open |-> TRUE, attr |-> Some(v.attr)]

\* a numpy result: shape <<>> for a scalar
NDArray(shape, v) == [shape |-> shape, v |-> v]

\* the positions an in-bounds int or slice(start, stop) selects on an axis of n
Positions(i, n) ==
    IF i.kind = "int" THEN <<i.i>>
    ELSE PyRange(IF IsNone(i.start) THEN 0 ELSE Val(i.start),
                 IF IsNone(i.stop) THEN n ELSE Val(i.stop), 1)

AllSlice == SliceIndex(None, None, None)

\* data[i] and data[i, x] on the (traces, samples) array: an int drops its axis
TdbDataRead(key) ==
    LET i == key[1]
        x == IF Len(key) = 2 THEN key[2] ELSE AllSlice
        rows == Positions(i, store.ntraces)
        cols == Positions(x, store.nsamples)
    IN IF i.kind = "int"
         THEN IF x.kind = "int"
                THEN NDArray(<<>>, DataCell(i.i, x.i))
                ELSE NDArray(<<Len(cols)>>,
                             [c \in 1 .. Len(cols) |-> DataCell(i.i, cols[c])])
         ELSE IF x.kind = "int"
                THEN NDArray(<<Len(rows)>>,
                             [r \in 1 .. Len(rows) |-> DataCell(rows[r], x.i)])
                ELSE NDArray(<<Len(rows), Len(cols)>>,
                             [r \in 1 .. Len(rows) |->
                                 [c \in 1 .. Len(cols) |-> DataCell(rows[r], cols[c])]])

\* headers[i] with every attribute: an ordered dict attribute -> value(s)
TdbHeadersRead(i) ==
    LET rows == Positions(i, store.ntraces)
    IN [k \in 1 .. Len(FieldNames) |->
           <<FieldNames[k],
             IF i.kind = "int" THEN HeaderValue(i.i, k)
             ELSE [r \in 1 .. Len(rows) |-> HeaderValue(rows[r], k)]>>]

\* headers[i] of a handle opened with attr=name: that attribute alone
TdbAttrRead(name, i) ==
    LET k == CHOOSE j \in 1 .. Len(FieldNames) : FieldNames[j] = name
        rows == Positions(i, store.ntraces)
    IN IF i.kind = "int" THEN HeaderValue(i.i, k)
       ELSE [r \in 1 .. Len(rows) |-> HeaderValue(rows[r], k)]

\* tdb[key]: a closed handle raises, whatever the key
TdbGetItem(tdb, key) ==
    IF ~tdb.open THEN Raise("TileDBError")
    ELSE IF tdb.array = "data" THEN Ok(TdbDataRead(key))
    ELSE IF IsNone(tdb.attr) THEN Ok(TdbHeadersRead(key[1]))
    ELSE Ok(TdbAttrRead(Val(tdb.attr), key[1]))

\* tdb.meta of a handle
TdbMeta(tdb) == IF ~tdb.open THEN Raise("TileDBError") ELSE Ok(HeadersMeta)

(***************************************************************************)
(* Header, Headers, Traces                                                 *)
(***************************************************************************)
Sized__init__(tdb) == [tdb |-> tdb]

\* Header._get_one / _get_many, dispatched on the index type
Header__getitem__(self, i) == TdbGetItem(self.tdb, <<i>>)

Headers_get_one(self, i) == TdbGetItem(self.tdb, <<i>>)

\* zip(*columns): as many rows as the shortest column has entries
ZipColumns(columns) ==
    LET n == IF columns = <<>> THEN 0
             ELSE SetMin({Len(columns[k]) : k \in 1 .. Len(columns)})
    IN [r \in 1 .. n |-> [k \in 1 .. Len(columns) |-> columns[k][r]]]

\* dict(zip(keys, row))
DictZip(keys, row) ==
    [k \in 1 .. (IF Len(keys) < Len(row) THEN Len(keys) ELSE Len(row)) |->
        <<keys[k], row[k]>>]

\* mutant: the columns are paired with the keys taken in reverse order
Headers_get_manyReversedKeys(self, i) ==
    LET got == TdbGetItem(self.tdb, <<i>>)
        headers == got.vals
        n == Len(headers)
        keys == [k \in 1 .. n |-> headers[n + 1 - k][1]]
        columns == [k \in 1 .. n |-> headers[k][2]]
        rows == ZipColumns(columns)
    IN IF got.err # "none" THEN got
       ELSE Ok([r \in 1 .. Len(rows) |-> DictZip(keys, rows[r])])

Headers_get_many(self, i) ==
    LET got == TdbGetItem(self.tdb, <<i>>)
        headers == got.vals
        keys == [k \in 1 .. Len(headers) |-> headers[k][1]]
        columns == [k \in 1 .. Len(headers) |-> headers[k][2]]
        rows == ZipColumns(columns)
    IN IF got.err # "none" THEN got
       ELSE Ok([r \in 1 .. Len(rows) |-> DictZip(keys, rows[r])])

Headers__getitem__(self, i) ==
    IF i.kind = "int" THEN Headers_get_one(self, i) ELSE Headers_get_many(self, i)

Traces__init__(data_tdb, headers_tdb) ==
    [data_tdb |-> data_tdb, headers_tdb |-> headers_tdb]

\* mutant: only the trace index reaches the array, the sample index is lost
Traces__getitem__TraceOnly(self, key) == TdbGetItem(self.data_tdb, <<key[1]>>)

Traces__getitem__(self, key) == TdbGetItem(self.data_tdb, key)

Traces_headers(self) == Sized__init__(self.headers_tdb)

\* Traces.header(name): a Header over a handle of its own, opened from the uri
Traces_header(self, v) == Sized__init__(ViewHandle(v))

(***************************************************************************)
(* Lines                                                                   *)
(***************************************************************************)
Lines__init__(data_tdb, labels, dimension) ==
    [data_tdb |-> data_tdb, labels |-> labels, dim |-> dimension]

\* the dense-array slab at position p of the view's axis
Slab(self, p) ==
    IF self.dim = 0
      THEN [x \in 1 .. Len(store.xlines) |->
               [z \in 1 .. store.nsamples |-> CubeCell(p, x - 1, z - 1)]]
    ELSE IF self.dim = 1
      THEN [i \in 1 .. Len(store.ilines) |->
               [z \in 1 .. store.nsamples |-> CubeCell(i - 1, p, z - 1)]]
    ELSE [i \in 1 .. Len(store.ilines) |->
             [x \in 1 .. Len(store.xlines) |-> CubeCell(i - 1, x - 1, p)]]

\* the position of a label in the label sequence (-1 when it has none)
PositionOf(labels, l) ==
    IF \E k \in 1 .. Len(labels) : labels[k] = l
      THEN (CHOOSE k \in 1 .. Len(labels) : labels[k] = l) - 1
      ELSE 0 - 1

\* Lines[i]: labels resolved through FilteredRange, then one read per position
Lines__getitem__(self, i) ==
    LET sel == FilteredRange__getitem__(
                   FilteredRange__init__({self.labels[k] : k \in 1 .. Len(self.labels)}), i)
        pos == [k \in 1 .. Len(sel.vals) |-> PositionOf(self.labels, sel.vals[k])]
    IN IF ~self.data_tdb.open THEN Raise("TileDBError")
       ELSE IF sel.err # "none" THEN sel
       ELSE IF i.kind = "int" /\ sel.vals = <<>> THEN Raise("IndexError")
       ELSE Ok([positions |-> pos,
                rows |-> [k \in 1 .. Len(pos) |-> Slab(self, pos[k])]])

(***************************************************************************)
(* TileSegy / StructuredTileSegy                                           *)
(***************************************************************************)
TileSegy_bin ==
    LET meta == TdbMeta(HeadersHandle)
    IN IF meta.err # "none" THEN meta
       ELSE Ok(SelectSeq(meta.vals, LAMBDA e : e[1] # "__text__"))

TileSegy_text ==
    LET meta == TdbMeta(HeadersHandle)
        len == meta.vals[MetaGet(meta.vals, "__text__")][2]
        starts == PyRange(0, len, TextBlockLen)
    IN IF meta.err # "none" THEN meta
       ELSE Ok([k \in 1 .. Len(starts) |-> <<starts[k], starts[k] + TextBlockLen>>])

TileSegy_traces == Traces__init__(DataHandle, HeadersHandle)

StructuredTileSegy_ilines == Lines__init__(DataHandle, store.ilines, 0)
StructuredTileSegy_xlines == Lines__init__(DataHandle, store.xlines, 1)
StructuredTileSegy_depths ==
    Lines__init__(DataHandle, [k \in 1 .. store.nsamples |-> k - 1], 3)

LinesOf(dim) ==
    IF dim = 0 THEN StructuredTileSegy_ilines
    ELSE IF dim = 1 THEN StructuredTileSegy_xlines
    ELSE StructuredTileSegy_depths

(***************************************************************************)
(* FilteredRange as a state machine: one object, looked up repeatedly.     *)
(***************************************************************************)
NoOp == [comp |-> "none"]

\* no dataset is in play
DsPinned ==
    /\ store = [kind |-> "unstructured", ntraces |-> 1, nsamples |-> 1,
                ilines |-> <<>>, xlines |-> <<>>]
    /\ h_open = TRUE
    /\ d_open = TRUE
    /\ views = {}
    /\ op = NoOp
    /\ out = NoResult

\* no FilteredRange is under test
FrPinned ==
    /\ fr = FilteredRange__init__({0})
    /\ index = NoIndex
    /\ result = NoResult
    /\ again = NoResult

InitFR ==
    /\ fr \in {FilteredRange__init__(members) : members \in LabelSets}
    /\ index = NoIndex
    /\ result = NoResult
    /\ again = NoResult
    /\ DsPinned

\* FilteredRange(members)[i], consumed into a list
Lookup(i) ==
    /\ index = NoIndex
    /\ index' = i
    /\ result' = FilteredRange__getitem__(fr, i)
    /\ again' = NoResult
    /\ UNCHANGED fr
    /\ UNCHANGED dsVars

\* the same index looked up a second time on the same object
LookupAgain ==
    /\ index # NoIndex
    /\ again = NoResult
    /\ again' = FilteredRange__getitem__(fr, index)
    /\ UNCHANGED <<fr, index, result>>
    /\ UNCHANGED dsVars

\* the caller drops both iterators; the object itself holds no lookup state
Discard ==
    /\ again # NoResult
    /\ index' = NoIndex
    /\ result' = NoResult
    /\ again' = NoResult
    /\ UNCHANGED fr
    /\ UNCHANGED dsVars

NextFR ==
    \/ index = NoIndex /\ \E i \in Indices : Lookup(i)
    \/ LookupAgain
    \/ Discard

SpecFR == InitFR /\ [][NextFR]_vars

(***************************************************************************)
(* A dataset opened by open(uri), read through its views, and closed.      *)
(***************************************************************************)
Idle == op = NoOp

\* in-bounds indices of an axis of extent n: an int, or slice(start, stop)
AxisIdx(n) ==
    {IntIndex(i) : i \in 0 .. n - 1}
        \cup {SliceIndex(a, b, None) :
                a \in {None} \cup {Some(v) : v \in 0 .. n},
                b \in {None} \cup {Some(v) : v \in 0 .. n}}
InOrder(i) ==
    i.kind = "int" \/ IsNone(i.start) \/ IsNone(i.stop) \/ Val(i.start) <= Val(i.stop)
TraceIdx == {i \in AxisIdx(store.ntraces) : InOrder(i)}
SampleIdx == {i \in AxisIdx(store.nsamples) : InOrder(i)}
TraceKeys == {<<i>> : i \in TraceIdx} \cup {<<i, x>> : i \in TraceIdx, x \in SampleIdx}

\* label indices tried on a Lines view
LineIdxInts ==
    (store.ilines[1] - 1 .. store.ilines[Len(store.ilines)] + 1)
        \cup ((0 - LineNeg) .. MaxXlines)
LineOpt == {None} \cup {Some(v) : v \in LineIdxInts}
LineSteps == {None, Some(1), Some(0 - 1), Some(2)}
LineIdx ==
    {IntIndex(i) : i \in LineIdxInts}
        \cup {SliceIndex(a, b, s) : a \in LineOpt, b \in LineOpt, s \in LineSteps}
FewLineIdx ==
    {IntIndex(store.ilines[1]), IntIndex(1), IntIndex(0 - 1), AllSlice}
Dims == {0, 1, 3}

Read(o, r) ==
    /\ Idle
    /\ op' = o
    /\ out' = r
    /\ UNCHANGED <<store, h_open, d_open, views>>
    /\ UNCHANGED frVars

\* t.bin
ReadBin == Read([comp |-> "bin"], TileSegy_bin)

\* t.text
ReadText == Read([comp |-> "text"], TileSegy_text)

\* t.traces[key]
TracesGet(key) ==
    /\ store.kind = "unstructured"
    /\ Read([comp |-> "Traces", key |-> key],
            Traces__getitem__(TileSegy_traces, key))

\* t.traces.headers[i]
HeadersGet(i) ==
    /\ store.kind = "unstructured"
    /\ Read([comp |-> "Headers", key |-> i],
            Headers__getitem__(Traces_headers(TileSegy_traces), i))

\* h = t.traces.header(name): opens a handle that the dataset does not own
TracesHeader(name) ==
    /\ Idle
    /\ store.kind = "unstructured"
    /\ Cardinality(views) < MaxViews
    /\ views' = views \cup {[attr |-> name, afterClose |-> ~h_open]}
    /\ UNCHANGED <<store, h_open, d_open, op, out>>
    /\ UNCHANGED frVars

\* h[i] for a view made earlier
HeaderGet(v, i) ==
    /\ v \in views
    /\ Read([comp |-> "Header", view |-> v, key |-> i],
            Header__getitem__(Traces_header(TileSegy_traces, v), i))

\* t.ilines[i], t.xlines[i], t.depths[i]
LinesGet(dim, i) ==
    /\ store.kind = "structured"
    /\ Read([comp |-> "Lines", dim |-> dim, key |-> i],
            Lines__getitem__(LinesOf(dim), i))

\* the caller takes the outcome; the next statement runs
Return ==
    /\ ~Idle
    /\ op' = NoOp
    /\ out' = NoResult
    /\ UNCHANGED <<store, h_open, d_open, views>>
    /\ UNCHANGED frVars

\* t.close(), or leaving the with block
Close ==
    /\ Idle
    /\ h_open \/ d_open
    /\ h_open' = FALSE
    /\ d_open' = FALSE
    /\ UNCHANGED <<store, views, op, out>>
    /\ UNCHANGED frVars

Init ==
    /\ store \in UnstructuredStores \cup StructuredStores
    /\ h_open = TRUE
    /\ d_open = TRUE
    /\ views = {}
    /\ op = NoOp
    /\ out = NoResult
    /\ FrPinned

Next ==
    \/ ReadBin
    \/ ReadText
    \/ Idle /\ \E key \in TraceKeys : TracesGet(key)
    \/ Idle /\ \E i \in TraceIdx : HeadersGet(i)
    \/ \E k \in 1 .. Len(FieldNames) : TracesHeader(FieldNames[k])
    \/ Idle /\ \E v \in views, i \in TraceIdx : HeaderGet(v, i)
    \/ Idle /\ store.kind = "structured"
          /\ \E dim \in Dims, i \in FewLineIdx : LinesGet(dim, i)
    \/ Return
    \/ Close

Spec == Init /\ [][Next]_vars

(***************************************************************************)
(* An open structured dataset read through its Lines views.                *)
(***************************************************************************)
InitLines ==
    /\ store \in StructuredStores
    /\ h_open = TRUE
    /\ d_open = TRUE
    /\ views = {}
    /\ op = NoOp
    /\ out = NoResult
    /\ FrPinned

NextLines ==
    \/ Idle /\ \E dim \in Dims, i \in LineIdx : LinesGet(dim, i)
    \/ Return

SpecLines == InitLines /\ [][NextLines]_vars

(***************************************************************************)
(* Properties of FilteredRange, stated on the last lookup.                 *)
(***************************************************************************)
Called == result.err # "nocall"
M == fr.members
IsSlice(start, stop, step) == index = SliceIndex(start, stop, step)
StrictlyIncreasing(q) == \A k \in 1 .. Len(q) - 1 : q[k] < q[k + 1]
StrictlyDecreasing(q) == \A k \in 1 .. Len(q) - 1 : q[k] > q[k + 1]
Elems(q) == {q[k] : k \in 1 .. Len(q)}
\* the members of S from its minimum upwards / from its maximum downwards
Ascending(S) == SelectSeq(PyRange(SetMin(S), SetMax(S) + 1, 1), LAMBDA x : x \in S)
Descending(S) == SelectSeq(PyRange(SetMax(S), SetMin(S) - 1, 0 - 1), LAMBDA x : x \in S)

\* C2: lookup(i) of a scalar i yields exactly <<i>> when i is a member and
\* nothing (and no error) when it is not, for every integer i, negative or
\* beyond max(M) included.
C2_ScalarLookup ==
    (Called /\ index.kind = "int") =>
        result = Ok(IF index.i \in M THEN <<index.i>> ELSE <<>>)

\* C3: lookup(slice(None, None, s)) with s > 0 yields, increasing, exactly the
\* members m with (m - min(M)) a multiple of s.
C3_AscendingStride ==
    \A s \in 1 .. MaxStep :
        (Called /\ IsSlice(None, None, Some(s))) =>
            result = Ok(SelectSeq(Ascending(M),
                                  LAMBDA m : (m - SetMin(M)) % s = 0))

\* C4: lookup(slice(None, None, s)) with s < 0 yields, decreasing, exactly the
\* members m with (max(M) - m) a multiple of |s|, also when min(M) <= 0.
C4_DescendingStride ==
    \A s \in 1 .. MaxStep :
        (Called /\ IsSlice(None, None, Some(0 - s))) =>
            result = Ok(SelectSeq(Descending(M),
                                  LAMBDA m : (SetMax(M) - m) % s = 0))

\* C5: with explicit start, stop and non-zero step, lookup yields exactly the
\* values of range(start, stop, step) that are members, in the range's order,
\* start and stop being label values.
C5_ExplicitRange ==
    (/\ Called
     /\ index.kind = "slice"
     /\ ~IsNone(index.start) /\ ~IsNone(index.stop) /\ ~IsNone(index.step)
     /\ Val(index.step) # 0) =>
        result = Ok(SelectSeq(PyRange(Val(index.start), Val(index.stop),
                                      Val(index.step)),
                              LAMBDA x : x \in M))

\* the last lookup was a slice with a negative step / with step 0
Descends == index.kind = "slice" /\ ~IsNone(index.step) /\ Val(index.step) < 0
ZeroStep == index.kind = "slice" /\ ~IsNone(index.step) /\ Val(index.step) = 0

\* C10: whatever the index (any int, any slice with non-zero step), a lookup
\* yields only members, each at most once, strictly increasing for a positive
\* or absent step and strictly decreasing for a negative one; and a second
\* lookup with the same index yields the same sequence.
C10_MembersMonotone ==
    (Called /\ ~ZeroStep) =>
        /\ Elems(result.vals) \subseteq M
        /\ IF Descends THEN StrictlyDecreasing(result.vals)
                       ELSE StrictlyIncreasing(result.vals)
        /\ (again.err # "nocall") => again = result

\* a descending lookup with a negative start, wrapped by slice.indices, that
\* yields two members or more, repeated once
C10_Witness ==
    /\ Descends
    /\ ~IsNone(index.start) /\ Val(index.start) < 0
    /\ result.err = "none" /\ Len(result.vals) >= 2
    /\ again = result

(***************************************************************************)
(* Properties of the dataset's views, stated on the read in progress.      *)
(***************************************************************************)
Closed == ~h_open /\ ~d_open
Keys(record) == [k \in 1 .. Len(record) |-> record[k][1]]
\* how many positions slice(start, stop) selects on an axis of n
Count(i, n) ==
    (IF IsNone(i.stop) THEN n ELSE Val(i.stop))
        - (IF IsNone(i.start) THEN 0 ELSE Val(i.start))
First(i) == IF IsNone(i.start) THEN 0 ELSE Val(i.start)
LabelsOf(dim) == LinesOf(dim).labels
LabelSet(dim) == {LabelsOf(dim)[k] : k \in 1 .. Len(LabelsOf(dim))}

\* C1: once the dataset is closed, every read fails with the closed-resource
\* error: bin, text, and Header, Headers, Traces and Lines reads on any
\* component of the dataset, made before or after the close, Header views
\* from Traces.header(name) included.
C1_ClosedReadsFail ==
    (Closed /\ ~Idle) => out.err = "TileDBError"

\* C7: Headers.get(slice(i, j)) for valid i <= j has j - i records, its k-th
\* record is Headers.get(i + k), and every record lists the declared field
\* names in the declared order.
C7_HeadersSliceRoundTrip ==
    (op.comp = "Headers" /\ h_open) =>
        LET H == Traces_headers(TileSegy_traces)
            i == op.key
        IN /\ out.err = "none"
           /\ i.kind = "int" => Keys(out.vals) = FieldNames
           /\ (i.kind = "slice" /\ ~IsNone(i.start) /\ ~IsNone(i.stop)) =>
                 /\ Len(out.vals) = Val(i.stop) - Val(i.start)
                 /\ \A k \in 0 .. Val(i.stop) - Val(i.start) - 1 :
                       /\ out.vals[k + 1]
                            = Headers_get_one(H, IntIndex(Val(i.start) + k)).vals
                       /\ Keys(out.vals[k + 1]) = FieldNames

\* Headers.get(slice(1, 3)) on an open dataset returned two records
C7_Witness ==
    /\ op.comp = "Headers" /\ h_open
    /\ op.key = SliceIndex(Some(1), Some(3), None)
    /\ out.err = "none" /\ Len(out.vals) = 2

\* C8: Traces.get drops one dimension per scalar index and keeps one per
\* range index: (scalar, scalar) is the stored sample, (range, scalar) and
\* (scalar, range) are 1-D, and (range, range) is a block of shape (selected
\* traces, selected samples) whose row for trace k is get(k, same range).
C8_TracesShape ==
    (op.comp = "Traces" /\ d_open /\ Len(op.key) = 2) =>
        LET T == TileSegy_traces
            i == op.key[1]
            x == op.key[2]
        IN /\ out.err = "none"
           /\ (i.kind = "int" /\ x.kind = "int") =>
                 /\ out.vals.shape = <<>>
                 /\ out.vals.v = DataCell(i.i, x.i)
           /\ (i.kind = "int" /\ x.kind = "slice") =>
                 out.vals.shape = <<Count(x, store.nsamples)>>
           /\ (i.kind = "slice" /\ x.kind = "int") =>
                 out.vals.shape = <<Count(i, store.ntraces)>>
           /\ (i.kind = "slice" /\ x.kind = "slice") =>
                 /\ out.vals.shape = <<Count(i, store.ntraces), Count(x, store.nsamples)>>
                 /\ Len(out.vals.v) = Count(i, store.ntraces)
                 /\ \A k \in 1 .. Count(i, store.ntraces) :
                       out.vals.v[k]
                         = Traces__getitem__(T, <<IntIndex(First(i) + k - 1), x>>).vals.v

\* Traces.get(slice(2, 5), slice(1, 3)) returned a 3 x 2 block
C8_Witness ==
    /\ op.comp = "Traces" /\ d_open
    /\ op.key = <<SliceIndex(Some(2), Some(5), None), SliceIndex(Some(1), Some(3), None)>>
    /\ out.err = "none" /\ out.vals.shape = <<3, 2>>

====
